---- MODULE Spec2Model ----
(***************************************************************************)
(* A strand (Strand.h) serializing handlers on top of a multi-consumer     *)
(* work queue (WorkQueue.h), with the Monitor (Monitor.h) transactions as  *)
(* atomic steps and the driver of StrandSample.cpp as the environment.     *)
(*                                                                         *)
(* Every thread has a stack of frames, one per active call of              *)
(* WorkQueue::run, Strand::run, Strand::dispatch, Strand::post or of a     *)
(* handler body.  A step of a thread is one critical section (a Monitor    *)
(* transaction or a section under WorkQueue::m_mtx) together with the      *)
(* thread-local code that follows it up to the next critical section.      *)
(***************************************************************************)
EXTENDS Integers, Sequences, FiniteSets, TLC

\* ------------------------------------------------------------------ bounds
NumThreads == 3        \* threads that may call workQueue.run()
NumStrands == 2        \* Strand instances bound to the one WorkQueue
MaxWorkers == 2        \* Spec: threads that call workQueue.run()
MaxHandlers == 3       \* Spec: handlers submitted in one behaviour
MaxDepth == 2          \* Spec: nesting of submissions made from handler bodies
MaxStops == 2          \* Spec: calls of WorkQueue::stop
LiveWorkers == 2       \* FairSpec: threads that call workQueue.run()
LiveHandlers == 3      \* FairSpec: handlers submitted in one behaviour
LiveDepth == 1         \* FairSpec: nesting of submissions made from handler bodies
LiveStops == 1         \* FairSpec: calls of WorkQueue::stop
StopWorkers == 3       \* StopSpec: threads that call workQueue.run()
StopHandlers == 2      \* StopSpec: handlers submitted in one behaviour
StopDepth == 1         \* StopSpec: nesting of submissions made from handler bodies
StopStops == 1         \* StopSpec: calls of WorkQueue::stop
FloodWorkers == 1      \* FloodSpec: threads that call workQueue.run()
FloodHandlers == 2     \* FloodSpec: handlers submitted besides the flood
FloodDepth == 1        \* FloodSpec: nesting of submissions made from handler bodies
FloodQueue == 1        \* FloodSpec: the flood waits while a strand's queue is this long
HistWorkers == 2       \* HistSpec: threads that call workQueue.run()
HistHandlers == 3      \* HistSpec: handlers submitted in one behaviour
HistDepth == 1         \* HistSpec: nesting of submissions made from handler bodies
HistStops == 1         \* HistSpec: calls of WorkQueue::stop
LockWorkers == 2       \* LockSpec: threads that call workQueue.run()
LockHandlers == 2      \* LockSpec: handlers submitted in one behaviour
LockDepth == 1         \* LockSpec: nesting of submissions made from handler bodies
LockStops == 1         \* LockSpec: calls of WorkQueue::stop
MarkWorkers == 3       \* MarkSpec: threads that call workQueue.run()
MarkHandlers == 2      \* MarkSpec: handlers submitted in one behaviour
MarkDepth == 1         \* MarkSpec: nesting of submissions made from handler bodies
MarkStops == 1         \* MarkSpec: calls of WorkQueue::stop
ThrowWorkers == 2      \* ThrowSpec: threads that call workQueue.run()
ThrowHandlers == 3     \* ThrowSpec: handlers submitted in one behaviour
ThrowDepth == 1        \* ThrowSpec: nesting of submissions made from handler bodies
ThrowStops == 1        \* ThrowSpec: calls of WorkQueue::stop

Foreign == 0
Workers == 1..NumThreads
Threads == {Foreign} \cup Workers
Strands == 1..NumStrands
Ops == {"post", "dispatch"}
WQ == "workQueue"

\* A handler body is a chain of submissions: the handler with body
\* <<c1, c2, ...>> calls c1.op on strand c1.s with the handler whose body is
\* <<c2, ...>>, and returns; the handler with body << >> just returns
\* (Obj::doSomething and ++doneCount in StrandSample.cpp).
Calls == [op : Ops, s : Strands]
Bodies(d) == UNION {[1..n -> Calls] : n \in 0..d}

NoHandler == [id |-> -1, body |-> << >>]
FloodHandler == [id |-> 0, body |-> << >>]
NoItem == [kind |-> "none", s |-> 0, seq |-> 0]

\* The mutexes: WorkQueue::m_mtx, and Monitor::m_mtx of strand s under the
\* name s.
NoLock == -1
WQLock == 0

VARIABLES
    m_q,        \* WorkQueue::m_q, the items: drain tasks [this]{run();} and nullptr
    m_data,     \* Strand::m_data of every strand: [running, q]
    stack,      \* the call stack of every thread
    thr,        \* "idle" | "run" | "returned": where a thread is wrt WorkQueue::run
    csWQ,       \* Callstack<WorkQueue> of every thread
    csStrand,   \* Callstack<Strand> of every thread
    nextId,     \* the identity of the next handler created
    stops,      \* calls of WorkQueue::stop made
    sub,        \* per handler: 0 not submitted, 1 submitted by the foreign thread, 2 by a worker
    started,    \* per handler: times its body was entered
    done,       \* per handler: times its body returned
    witem,      \* per pushed work item, in push order: its kind and how far it got
    subAfterStop, \* the foreign thread submitted a handler after a stop
    flood,      \* the foreign thread keeps posting
    lim,        \* the bounds of this behaviour
    hist,       \* per strand, in transaction order: the submissions made to it
    held,       \* per thread: the mutex it holds (Monitor::m_mtx, WorkQueue::m_mtx)
    failed      \* the strands a handler failure has propagated out of

vars == <<m_q, m_data, stack, thr, csWQ, csStrand, nextId, stops, sub,
          started, done, witem, subAfterStop, flood, lim, hist, held, failed>>

\* ------------------------------------------------------------------ frames
Frame(fn, pc, s, h, ctx) ==
    [fn |-> fn, pc |-> pc, s |-> s, h |-> h, w |-> NoItem, ctx |-> ctx]

Top(t) == stack[t][Len(stack[t])]
Front(sq) == SubSeq(sq, 1, Len(sq) - 1)
SetTop(st, f) == [st EXCEPT ![Len(st)] = f]

\* Callstack<T>::contains(identity): the identity is somewhere on the calling
\* thread's stack of contexts.
contains(cs, identity) == \E i \in 1..Len(cs) : cs[i] = identity

\* canDispatch that takes every thread for one inside run().
canDispatch_always(t) == TRUE

\* WorkQueue::canDispatch
canDispatch(t) == contains(csWQ[t], WQ)

\* runningInThisThread that never recognises the owner.
runningInThisThread_never(t, s) == FALSE

\* Strand::runningInThisThread
runningInThisThread(t, s) == contains(csStrand[t], s)

\* The thread-local state of a thread: its frames and its two callstacks.
Local(t) == [st |-> stack[t], wq |-> csWQ[t], strand |-> csStrand[t]]

\* The top frame returns: it leaves the stack and the Callstack<T>::Context
\* it declared, if any, is destroyed.
Pop(r) ==
    LET f == r.st[Len(r.st)] IN
    [st |-> Front(r.st),
     wq |-> IF f.ctx = "wq" THEN Front(r.wq) ELSE r.wq,
     strand |-> IF f.ctx = "strand" THEN Front(r.strand) ELSE r.strand]

\* A caller that had nothing left to do but return (pc "ret") returns too.
RECURSIVE Unwind(_)
Unwind(r) ==
    IF r.st = << >> THEN r
    ELSE IF r.st[Len(r.st)].pc = "ret" THEN Unwind(Pop(r))
    ELSE r

Return(r) == Unwind(Pop(r))

\* Callstack<Strand>::Context ctx(this)
EnterStrand(r, s) == [r EXCEPT !.strand = Append(@, s)]

\* Calling f: a frame on top of the caller's.
Call(r, f) == [r EXCEPT !.st = Append(@, f)]

SetLocal(t, r) ==
    /\ stack' = [stack EXCEPT ![t] = r.st]
    /\ csWQ' = [csWQ EXCEPT ![t] = r.wq]
    /\ csStrand' = [csStrand EXCEPT ![t] = r.strand]

\* std::lock_guard / std::unique_lock.  The step of thread t runs under mutex
\* l: t took it in an earlier step (when the taking of a mutex is a step of
\* its own), or takes it now, which it can when nobody holds a mutex.
Locked(t, l) ==
    IF lim.locks THEN held[t] = l ELSE \A u \in Threads : held[u] = NoLock

\* The end of the scope of the lock.
Unlock(t) == held' = [held EXCEPT ![t] = NoLock]

\* The submissions made to strand s, kept when lim.hist: the handler, the
\* thread, the length of the strand's queue at that moment, whether the
\* handler was put in the queue and whether running went from false to true.
LogSub(t, s, h, queued, claim) ==
    hist' = IF lim.hist
            THEN [hist EXCEPT ![s] = Append(@, [id |-> h.id, t |-> t, n |-> Len(m_data[s].q),
                                                queued |-> queued, claim |-> claim])]
            ELSE hist

\* The push is made behind a shutdown marker after the last consumer has
\* left run(): stop() was called, a marker is in the queue, and of the
\* threads that called run() none is inside it (noted when lim.hist).
Late ==
    /\ lim.hist
    /\ stops >= 1
    /\ \E k \in 1..Len(m_q) : m_q[k].kind = "null"
    /\ \E t \in Workers : thr[t] = "returned"
    /\ \A t \in Workers : thr[t] # "run"

\* The history of the work items, kept while the pushes are bounded.
LogPush(item) ==
    witem' = IF lim.flood THEN witem
             ELSE Append(witem, [kind |-> item.kind, s |-> item.s, st |-> "queued",
                                 late |-> Late])
LogSet(w, st) ==
    witem' = IF lim.flood THEN witem ELSE [witem EXCEPT ![w.seq].st = st]
Stamp(item) == IF lim.flood THEN item ELSE [item EXCEPT !.seq = Len(witem) + 1]

\* push that puts the item at the head of the queue.
push_front(item) ==
    /\ m_q' = <<Stamp(item)>> \o m_q
    /\ LogPush(item)

\* WorkQueue::push under m_mtx: m_q.push(std::move(w)).  The item's place in
\* push order is recorded in witem.
push(item) ==
    /\ m_q' = Append(m_q, Stamp(item))
    /\ LogPush(item)

DrainTask(s) == [kind |-> "drain", s |-> s, seq |-> 0]
Nullptr == [kind |-> "null", s |-> 0, seq |-> 0]

\* handler(): the body is entered.  The handlers of the flood have identity 0
\* and are not counted.
Enter(h) == started' = IF h.id = 0 THEN started ELSE [started EXCEPT ![h.id] = @ + 1]
HandlerFrame(h, s) == Frame("handler", "body", s, h, "none")

\* ------------------------------------------------------------------ the transactions
\* The lambda of dispatch without its test of data.running: it always claims.
dispatchData_claims(data, handler) ==
    [data |-> [data EXCEPT !.running = TRUE], trigger |-> TRUE]

\* The lambda of dispatch that claims an idle strand without setting running.
dispatchData_noflag(data, handler) ==
    IF data.running
    THEN [data |-> [data EXCEPT !.q = Append(@, handler)], trigger |-> FALSE]
    ELSE [data |-> data, trigger |-> TRUE]

\* The lambda dispatch runs under m_data: enqueue for the owner, or claim.
dispatchData(data, handler) ==
    IF data.running
    THEN [data |-> [data EXCEPT !.q = Append(@, handler)], trigger |-> FALSE]
    ELSE [data |-> [data EXCEPT !.running = TRUE], trigger |-> TRUE]

\* The lambda of post that puts the handler at the head of the queue.
postData_front(data, handler) ==
    IF data.running
    THEN [data |-> [data EXCEPT !.q = <<handler>> \o @], trigger |-> FALSE]
    ELSE [data |-> [running |-> TRUE, q |-> <<handler>> \o data.q], trigger |-> TRUE]

\* The lambda of post that asks for a drain whatever running was.
postData_always(data, handler) ==
    [data |-> [running |-> TRUE, q |-> Append(data.q, handler)], trigger |-> TRUE]

\* The lambda of post that enqueues and never asks for a drain.
postData_notrigger(data, handler) ==
    [data |-> [data EXCEPT !.q = Append(@, handler)], trigger |-> FALSE]

\* The lambda post runs under m_data: enqueue, and claim if not running.
postData(data, handler) ==
    IF data.running
    THEN [data |-> [data EXCEPT !.q = Append(@, handler)], trigger |-> FALSE]
    ELSE [data |-> [running |-> TRUE, q |-> Append(data.q, handler)], trigger |-> TRUE]

\* The lambda of Strand::run that leaves running set when the queue is empty.
runData_norelease(data) ==
    IF Len(data.q) > 0
    THEN [data |-> [data EXCEPT !.q = Tail(@)], handler |-> Head(data.q)]
    ELSE [data |-> data, handler |-> NoHandler]

\* The lambda of Strand::run that takes the handler queued last.
runData_lifo(data) ==
    IF Len(data.q) > 0
    THEN [data |-> [data EXCEPT !.q = SubSeq(@, 1, Len(@) - 1)], handler |-> data.q[Len(data.q)]]
    ELSE [data |-> [data EXCEPT !.running = FALSE], handler |-> NoHandler]

\* The lambda Strand::run runs under m_data: pop the front, or release.
runData(data) ==
    IF Len(data.q) > 0
    THEN [data |-> [data EXCEPT !.q = Tail(@)], handler |-> Head(data.q)]
    ELSE [data |-> [data EXCEPT !.running = FALSE], handler |-> NoHandler]

\* ------------------------------------------------------------------ Init
InitWith(l) ==
    /\ m_q = << >>
    /\ m_data = [s \in Strands |-> [running |-> FALSE, q |-> << >>]]
    /\ stack = [t \in Threads |-> << >>]
    /\ thr = [t \in Threads |-> "idle"]
    /\ csWQ = [t \in Threads |-> << >>]
    /\ csStrand = [t \in Threads |-> << >>]
    /\ nextId = 1
    /\ stops = 0
    /\ sub = [i \in 1..l.handlers |-> 0]
    /\ started = [i \in 1..l.handlers |-> 0]
    /\ done = [i \in 1..l.handlers |-> 0]
    /\ witem = << >>
    /\ subAfterStop = FALSE
    /\ flood = l.flood
    /\ lim = l
    /\ hist = [s \in Strands |-> << >>]
    /\ held = [t \in Threads |-> NoLock]
    /\ failed = {}

Init ==
    InitWith([workers |-> MaxWorkers, handlers |-> MaxHandlers, stops |-> MaxStops,
              depth |-> MaxDepth, flood |-> FALSE, hist |-> FALSE, locks |-> FALSE])

\* ------------------------------------------------------------------ the driver
\* std::thread([&workQueue] { workQueue.run(); }): the thread enters
\* WorkQueue::run and declares its Callstack<WorkQueue>::Context.
WorkerStart(t) ==
    /\ t \in 1..lim.workers
    /\ thr[t] = "idle"
    /\ thr' = [thr EXCEPT ![t] = "run"]
    /\ stack' = [stack EXCEPT ![t] = <<Frame("WorkQueue::run", "wait", 0, NoHandler, "wq")>>]
    /\ csWQ' = [csWQ EXCEPT ![t] = Append(@, WQ)]
    /\ UNCHANGED <<m_q, m_data, csStrand, nextId, stops, sub, started, done,
                   witem, subAfterStop, flood, lim, hist, held, failed>>

\* The foreign thread calls strand.post(handler) or strand.dispatch(handler)
\* with a new handler.
Submit(t, op, s, body) ==
    /\ t = Foreign
    /\ stack[t] = << >>
    /\ nextId + Len(body) <= lim.handlers
    /\ LET h == [id |-> nextId, body |-> body] IN
       /\ stack' = [stack EXCEPT ![t] =
              <<IF op = "post" THEN Frame("post", "txn", s, h, "none")
                ELSE Frame("dispatch", "check", s, h, "none")>>]
       /\ sub' = [sub EXCEPT ![h.id] = 1]
    /\ nextId' = nextId + Len(body) + 1
    /\ subAfterStop' = (subAfterStop \/ stops > 0)
    /\ UNCHANGED <<m_q, m_data, thr, csWQ, csStrand, stops, started, done,
                   witem, flood, lim, hist, held, failed>>

\* workQueue.stop(): push(nullptr)
stop(t) ==
    /\ t = Foreign
    /\ stack[t] = << >>
    /\ stops < lim.stops
    /\ \A u \in Threads : held[u] # WQLock
    /\ push(Nullptr)
    /\ stops' = stops + 1
    /\ UNCHANGED <<m_data, stack, thr, csWQ, csStrand, nextId, sub, started,
                   done, subAfterStop, flood, lim, hist, held, failed>>

\* ------------------------------------------------------------------ WorkQueue::run
\* m_cond.wait(lock, [this] { return !m_q.empty(); }); w = front; pop
WQ_pop(t) ==
    /\ stack[t] # << >>
    /\ Top(t).fn = "WorkQueue::run" /\ Top(t).pc = "wait"
    /\ m_q # << >>
    /\ Locked(t, WQLock)
    /\ stack' = [stack EXCEPT ![t] = SetTop(@, [Top(t) EXCEPT !.pc = "popped", !.w = Head(m_q)])]
    /\ m_q' = Tail(m_q)
    /\ LogSet(Head(m_q), "popped")
    /\ Unlock(t)
    /\ UNCHANGED <<m_data, thr, csWQ, csStrand, nextId, stops, sub, started,
                   done, subAfterStop, flood, lim, hist, failed>>

\* if (w) w(): the drain task [this] { run(); } enters Strand::run, which
\* declares its Callstack<Strand>::Context; WorkQueue::run goes on to wait
\* when it returns.
WQ_call(t) ==
    /\ stack[t] # << >>
    /\ Top(t).fn = "WorkQueue::run" /\ Top(t).pc = "popped"
    /\ Top(t).w.kind = "drain"
    /\ LET w == Top(t).w
           r0 == [Local(t) EXCEPT !.st = SetTop(@, [Top(t) EXCEPT !.pc = "wait", !.w = NoItem])]
           r1 == Call(EnterStrand(r0, w.s), Frame("Strand::run", "txn", w.s, NoHandler, "strand"))
       IN /\ SetLocal(t, r1)
          /\ LogSet(w, "started")
    /\ UNCHANGED <<m_q, m_data, thr, nextId, stops, sub, started, done,
                   subAfterStop, flood, lim, hist, held, failed>>

\* The shutdown branch without its push(nullptr): the marker is consumed.
WQ_shutdown_norelay(t) ==
    /\ stack[t] # << >>
    /\ Top(t).fn = "WorkQueue::run" /\ Top(t).pc = "popped"
    /\ Top(t).w.kind = "null"
    /\ SetLocal(t, Return(Local(t)))
    /\ thr' = [thr EXCEPT ![t] = "returned"]
    /\ UNCHANGED <<m_q, witem, m_data, nextId, stops, sub, started, done,
                   subAfterStop, flood, lim, hist, held, failed>>

\* else { push(nullptr); return; }
WQ_shutdown(t) ==
    /\ stack[t] # << >>
    /\ Top(t).fn = "WorkQueue::run" /\ Top(t).pc = "popped"
    /\ Top(t).w.kind = "null"
    /\ Locked(t, WQLock)
    /\ push(Nullptr)
    /\ Unlock(t)
    /\ SetLocal(t, Return(Local(t)))
    /\ thr' = [thr EXCEPT ![t] = "returned"]
    /\ UNCHANGED <<m_data, nextId, stops, sub, started, done, subAfterStop,
                   flood, lim, hist, failed>>

\* ------------------------------------------------------------------ Strand::post
\* post that runs the handler at once when the caller owns the strand, the
\* way dispatch does.
post_txn_inline(t) ==
    /\ stack[t] # << >>
    /\ Top(t).fn = "post" /\ Top(t).pc = "txn"
    /\ LET f == Top(t)
           r == postData(m_data[f.s], f.h)
       IN IF runningInThisThread(t, f.s)
          THEN /\ SetLocal(t, Call([Local(t) EXCEPT !.st = SetTop(@, [f EXCEPT !.pc = "ret"])],
                                   HandlerFrame(f.h, f.s)))
               /\ Enter(f.h)
               /\ UNCHANGED m_data
          ELSE /\ m_data' = [m_data EXCEPT ![f.s] = r.data]
               /\ UNCHANGED started
               /\ IF r.trigger
                  THEN SetLocal(t, [Local(t) EXCEPT !.st = SetTop(@, [f EXCEPT !.pc = "push"])])
                  ELSE SetLocal(t, Return(Local(t)))
    /\ UNCHANGED <<m_q, thr, nextId, stops, sub, done, witem,
                   subAfterStop, flood, lim, hist, held, failed>>

\* bool trigger = m_data(...)
post_txn(t) ==
    /\ stack[t] # << >>
    /\ Top(t).fn = "post" /\ Top(t).pc = "txn"
    /\ LET s == Top(t).s
           r == postData(m_data[s], Top(t).h)
       IN /\ Locked(t, s)
          /\ m_data' = [m_data EXCEPT ![s] = r.data]
          /\ LogSub(t, s, Top(t).h, TRUE, r.trigger)
          /\ Unlock(t)
          /\ IF r.trigger
             THEN SetLocal(t, [Local(t) EXCEPT !.st = SetTop(@, [Top(t) EXCEPT !.pc = "push"])])
             ELSE SetLocal(t, Return(Local(t)))
    /\ UNCHANGED <<m_q, thr, nextId, stops, sub, started, done, witem,
                   subAfterStop, flood, lim, failed>>

\* if (trigger) m_proc.push([this] { run(); })
post_push(t) ==
    /\ stack[t] # << >>
    /\ Top(t).fn = "post" /\ Top(t).pc = "push"
    /\ Locked(t, WQLock)
    /\ push(DrainTask(Top(t).s))
    /\ Unlock(t)
    /\ SetLocal(t, Return(Local(t)))
    /\ UNCHANGED <<m_data, thr, nextId, stops, sub, started, done,
                   subAfterStop, flood, lim, hist, failed>>

\* ------------------------------------------------------------------ Strand::dispatch
\* The two thread-local tests: canDispatch(), then runningInThisThread().
dispatch_check(t) ==
    /\ stack[t] # << >>
    /\ Top(t).fn = "dispatch" /\ Top(t).pc = "check"
    /\ LET f == Top(t)
           ret == [Local(t) EXCEPT !.st = SetTop(@, [f EXCEPT !.pc = "ret"])]
       IN IF ~canDispatch(t)
          THEN /\ SetLocal(t, Call(ret, Frame("post", "txn", f.s, f.h, "none")))
               /\ UNCHANGED <<started, hist>>
          ELSE IF runningInThisThread(t, f.s)
          THEN /\ SetLocal(t, Call(ret, HandlerFrame(f.h, f.s)))
               /\ Enter(f.h)
               /\ LogSub(t, f.s, f.h, FALSE, FALSE)
          ELSE /\ SetLocal(t, [Local(t) EXCEPT !.st = SetTop(@, [f EXCEPT !.pc = "txn"])])
               /\ UNCHANGED <<started, hist>>
    /\ UNCHANGED <<m_q, m_data, thr, nextId, stops, sub, done, witem,
                   subAfterStop, flood, lim, held, failed>>

\* auto trigger = m_data(...);
\* if (trigger) { Callstack<Strand>::Context ctx(this); handler(); ...
dispatch_txn(t) ==
    /\ stack[t] # << >>
    /\ Top(t).fn = "dispatch" /\ Top(t).pc = "txn"
    /\ LET f == Top(t)
           r == dispatchData(m_data[f.s], f.h)
           r0 == [Local(t) EXCEPT !.st = SetTop(@, [f EXCEPT !.pc = "run", !.ctx = "strand"])]
       IN /\ Locked(t, f.s)
          /\ m_data' = [m_data EXCEPT ![f.s] = r.data]
          /\ LogSub(t, f.s, f.h, ~r.trigger, r.trigger)
          /\ Unlock(t)
          /\ IF r.trigger
             THEN /\ SetLocal(t, Call(EnterStrand(r0, f.s), HandlerFrame(f.h, f.s)))
                  /\ Enter(f.h)
             ELSE /\ SetLocal(t, Return(Local(t)))
                  /\ UNCHANGED started
    /\ UNCHANGED <<m_q, thr, nextId, stops, sub, done, witem, subAfterStop, flood, lim, failed>>

\* ... run(); }
dispatch_run(t) ==
    /\ stack[t] # << >>
    /\ Top(t).fn = "dispatch" /\ Top(t).pc = "run"
    /\ LET f == Top(t)
           r0 == [Local(t) EXCEPT !.st = SetTop(@, [f EXCEPT !.pc = "ret"])]
       IN SetLocal(t, Call(EnterStrand(r0, f.s), Frame("Strand::run", "txn", f.s, NoHandler, "strand")))
    /\ UNCHANGED <<m_q, m_data, thr, nextId, stops, sub, started, done,
                   witem, subAfterStop, flood, lim, hist, held, failed>>

\* ------------------------------------------------------------------ Strand::run
\* The loop without its exit: on an empty queue it keeps the strand and polls
\* the queue again.
run_txn_poll(t) ==
    /\ stack[t] # << >>
    /\ Top(t).fn = "Strand::run" /\ Top(t).pc = "txn"
    /\ LET s == Top(t).s
           r == runData(m_data[s])
       IN IF r.handler # NoHandler
          THEN /\ m_data' = [m_data EXCEPT ![s] = r.data]
               /\ SetLocal(t, Call(Local(t), HandlerFrame(r.handler, s)))
               /\ Enter(r.handler)
          ELSE /\ SetLocal(t, Local(t))
               /\ UNCHANGED <<m_data, started>>
    /\ UNCHANGED <<m_q, thr, nextId, stops, sub, done, witem, subAfterStop, flood, lim, hist, held, failed>>

\* The loop with the test of the queue and the clearing of running in two
\* transactions: the first finds the queue empty, the second clears the flag.
run_txn_split(t) ==
    /\ stack[t] # << >>
    /\ Top(t).fn = "Strand::run" /\ Top(t).pc \in {"txn", "clear"}
    /\ LET s == Top(t).s
           r == runData(m_data[s])
       IN IF Top(t).pc = "clear"
          THEN /\ m_data' = [m_data EXCEPT ![s].running = FALSE]
               /\ SetLocal(t, Return(Local(t)))
               /\ UNCHANGED started
          ELSE IF r.handler # NoHandler
          THEN /\ m_data' = [m_data EXCEPT ![s] = r.data]
               /\ SetLocal(t, Call(Local(t), HandlerFrame(r.handler, s)))
               /\ Enter(r.handler)
          ELSE /\ SetLocal(t, [Local(t) EXCEPT !.st = SetTop(@, [Top(t) EXCEPT !.pc = "clear"])])
               /\ UNCHANGED <<m_data, started>>
    /\ UNCHANGED <<m_q, thr, nextId, stops, sub, done, witem, subAfterStop, flood, lim, hist, held, failed>>

\* The loop with handler() called inside the lambda, under the mutex of
\* m_data.
run_txn_locked(t) ==
    /\ stack[t] # << >>
    /\ Top(t).fn = "Strand::run" /\ Top(t).pc = "txn"
    /\ LET s == Top(t).s
           r == runData(m_data[s])
       IN /\ Locked(t, s)
          /\ m_data' = [m_data EXCEPT ![s] = r.data]
          /\ IF r.handler # NoHandler
             THEN /\ SetLocal(t, Call(Local(t), HandlerFrame(r.handler, s)))
                  /\ Enter(r.handler)
                  /\ held' = [held EXCEPT ![t] = s]
             ELSE /\ SetLocal(t, Return(Local(t)))
                  /\ Unlock(t)
                  /\ UNCHANGED started
    /\ UNCHANGED <<m_q, thr, nextId, stops, sub, done, witem, subAfterStop, flood, lim, hist, failed>>

\* One turn of the loop: the transaction, then handler() or return.
run_txn(t) ==
    /\ stack[t] # << >>
    /\ Top(t).fn = "Strand::run" /\ Top(t).pc = "txn"
    /\ LET s == Top(t).s
           r == runData(m_data[s])
       IN /\ Locked(t, s)
          /\ m_data' = [m_data EXCEPT ![s] = r.data]
          /\ Unlock(t)
          /\ IF r.handler # NoHandler
             THEN /\ SetLocal(t, Call(Local(t), HandlerFrame(r.handler, s)))
                  /\ Enter(r.handler)
             ELSE /\ SetLocal(t, Return(Local(t)))
                  /\ UNCHANGED started
    /\ UNCHANGED <<m_q, thr, nextId, stops, sub, done, witem, subAfterStop, flood, lim, hist, failed>>

\* ------------------------------------------------------------------ handler bodies
\* The body submits the next handler of its chain.
handler_call(t) ==
    /\ stack[t] # << >>
    /\ Top(t).fn = "handler"
    /\ Top(t).h.body # << >>
    /\ LET f == Top(t)
           c == Head(f.h.body)
           child == [id |-> f.h.id + 1, body |-> Tail(f.h.body)]
           r0 == [Local(t) EXCEPT !.st = SetTop(@, [f EXCEPT !.h.body = << >>])]
       IN /\ SetLocal(t, Call(r0, IF c.op = "post"
                                  THEN Frame("post", "txn", c.s, child, "none")
                                  ELSE Frame("dispatch", "check", c.s, child, "none")))
          /\ sub' = [sub EXCEPT ![child.id] = IF t = Foreign THEN 1 ELSE 2]
    /\ UNCHANGED <<m_q, m_data, thr, nextId, stops, started, done, witem,
                   subAfterStop, flood, lim, hist, held, failed>>

\* The body returns.
handler_return(t) ==
    /\ stack[t] # << >>
    /\ Top(t).fn = "handler"
    /\ Top(t).h.body = << >>
    /\ done' = IF Top(t).h.id = 0 THEN done ELSE [done EXCEPT ![Top(t).h.id] = @ + 1]
    /\ SetLocal(t, Return(Local(t)))
    /\ UNCHANGED <<m_q, m_data, thr, nextId, stops, sub, started, witem,
                   subAfterStop, flood, lim, hist, held, failed>>

\* ------------------------------------------------------------------ specification
Step(t) ==
    \/ WQ_pop(t)
    \/ WQ_call(t)
    \/ WQ_shutdown(t)
    \/ post_txn(t)
    \/ post_push(t)
    \/ dispatch_check(t)
    \/ dispatch_txn(t)
    \/ dispatch_run(t)
    \/ run_txn(t)
    \/ handler_call(t)
    \/ handler_return(t)

Next ==
    \/ \E t \in Workers : WorkerStart(t)
    \/ \E op \in Ops, s \in Strands, body \in Bodies(lim.depth) : Submit(Foreign, op, s, body)
    \/ stop(Foreign)
    \/ \E t \in Threads : Step(t)

Spec == Init /\ [][Next]_vars

\* The scheduler lets every thread that can take a step take one, and every
\* std::thread created run.
Fairness == \A t \in Threads : WF_vars(Step(t)) /\ WF_vars(WorkerStart(t))

InitFair ==
    InitWith([workers |-> LiveWorkers, handlers |-> LiveHandlers, stops |-> LiveStops,
              depth |-> LiveDepth, flood |-> FALSE, hist |-> FALSE, locks |-> FALSE])

FairSpec == InitFair /\ [][Next]_vars /\ Fairness

InitStop ==
    InitWith([workers |-> StopWorkers, handlers |-> StopHandlers, stops |-> StopStops,
              depth |-> StopDepth, flood |-> FALSE, hist |-> FALSE, locks |-> FALSE])

StopSpec == InitStop /\ [][Next]_vars /\ Fairness

\* The foreign thread posts one more handler of the flood; the flood waits
\* while the strand's queue is FloodQueue long.
Flood(t, s) ==
    /\ t = Foreign
    /\ stack[t] = << >>
    /\ flood
    /\ Len(m_data[s].q) < FloodQueue
    /\ stack' = [stack EXCEPT ![t] = <<Frame("post", "txn", s, FloodHandler, "none")>>]
    /\ UNCHANGED <<m_q, m_data, thr, csWQ, csStrand, nextId, stops, sub, started,
                   done, witem, subAfterStop, flood, lim, hist, held, failed>>

\* The foreign thread has posted its last handler.
EndFlood ==
    /\ flood
    /\ flood' = FALSE
    /\ UNCHANGED <<m_q, m_data, stack, thr, csWQ, csStrand, nextId, stops, sub,
                   started, done, witem, subAfterStop, lim, hist, held, failed>>

\* The steps of a thread when stop() is never called.
StepNoStop(t) ==
    \/ WQ_pop(t)
    \/ WQ_call(t)
    \/ post_txn(t)
    \/ post_push(t)
    \/ dispatch_check(t)
    \/ dispatch_txn(t)
    \/ dispatch_run(t)
    \/ run_txn(t)
    \/ handler_call(t)
    \/ handler_return(t)

NextFlood ==
    \/ \E t \in Workers : WorkerStart(t)
    \/ \E op \in Ops, s \in Strands, body \in Bodies(lim.depth) : Submit(Foreign, op, s, body)
    \/ \E s \in Strands : Flood(Foreign, s)
    \/ EndFlood
    \/ \E t \in Threads : StepNoStop(t)

InitFlood ==
    InitWith([workers |-> FloodWorkers, handlers |-> FloodHandlers, stops |-> 0,
              depth |-> FloodDepth, flood |-> TRUE, hist |-> FALSE, locks |-> FALSE])

FloodSpec ==
    /\ InitFlood /\ [][NextFlood]_vars
    /\ \A t \in Threads : WF_vars(StepNoStop(t)) /\ WF_vars(WorkerStart(t))

\* The mutex thread t is about to take: Monitor::m_mtx of the strand for the
\* transactions of post, dispatch and Strand::run, WorkQueue::m_mtx for push
\* and for the pop of WorkQueue::run (m_cond.wait gives the mutex back while
\* the queue is empty).
Wants(t) ==
    IF stack[t] = << >> THEN NoLock
    ELSE LET f == Top(t) IN
         CASE f.fn = "post" /\ f.pc = "txn" -> f.s
           [] f.fn = "post" /\ f.pc = "push" -> WQLock
           [] f.fn = "dispatch" /\ f.pc = "txn" -> f.s
           [] f.fn = "Strand::run" /\ f.pc = "txn" -> f.s
           [] f.fn = "WorkQueue::run" /\ f.pc = "wait" /\ m_q # << >> -> WQLock
           [] f.fn = "WorkQueue::run" /\ f.pc = "popped" /\ f.w.kind = "null" -> WQLock
           [] OTHER -> NoLock

\* std::lock_guard<std::mutex> hold{m_mtx}: the thread takes the mutex when
\* no thread holds it.
Acquire(t) ==
    /\ lim.locks
    /\ held[t] = NoLock
    /\ Wants(t) # NoLock
    /\ \A u \in Threads : held[u] # Wants(t)
    /\ held' = [held EXCEPT ![t] = Wants(t)]
    /\ UNCHANGED <<m_q, m_data, stack, thr, csWQ, csStrand, nextId, stops, sub,
                   started, done, witem, subAfterStop, flood, lim, hist, failed>>

\* The same program with the taking of a mutex as a step of its own.
StepLock(t) == Acquire(t) \/ Step(t)

NextLock ==
    \/ \E t \in Workers : WorkerStart(t)
    \/ \E op \in Ops, s \in Strands, body \in Bodies(lim.depth) : Submit(Foreign, op, s, body)
    \/ stop(Foreign)
    \/ \E t \in Threads : StepLock(t)

InitLock ==
    InitWith([workers |-> LockWorkers, handlers |-> LockHandlers, stops |-> LockStops,
              depth |-> LockDepth, flood |-> FALSE, hist |-> FALSE, locks |-> TRUE])

LockSpec == InitLock /\ [][NextLock]_vars

\* The same program with the submissions to every strand recorded in hist.
InitHist ==
    InitWith([workers |-> HistWorkers, handlers |-> HistHandlers, stops |-> HistStops,
              depth |-> HistDepth, flood |-> FALSE, hist |-> TRUE, locks |-> FALSE])

HistSpec == InitHist /\ [][Next]_vars

\* The strands thread t is running: those of its Callstack<Strand>.
Running(t) == {csStrand[t][i] : i \in 1..Len(csStrand[t])}

\* A failing handler with a guard in dispatch and Strand::run that clears
\* running when the failure passes.
handler_throw_release(t) ==
    /\ stack[t] # << >>
    /\ Top(t).fn = "handler"
    /\ failed' = failed \cup Running(t)
    /\ m_data' = [s \in Strands |->
                     IF s \in Running(t) THEN [m_data[s] EXCEPT !.running = FALSE]
                     ELSE m_data[s]]
    /\ stack' = [stack EXCEPT ![t] = << >>]
    /\ csWQ' = [csWQ EXCEPT ![t] = << >>]
    /\ csStrand' = [csStrand EXCEPT ![t] = << >>]
    /\ thr' = [thr EXCEPT ![t] = "failed"]
    /\ UNCHANGED <<m_q, nextId, stops, sub, started, done, witem,
                   subAfterStop, flood, lim, hist, held>>

\* handler() fails: nothing catches the failure in dispatch, Strand::run,
\* the drain task or WorkQueue::run, so it leaves every call on the thread's
\* stack, the Callstack contexts are destroyed on the way, and m_data is not
\* touched.  The thread is out of run().
handler_throw(t) ==
    /\ stack[t] # << >>
    /\ Top(t).fn = "handler"
    /\ failed' = failed \cup Running(t)
    /\ stack' = [stack EXCEPT ![t] = << >>]
    /\ csWQ' = [csWQ EXCEPT ![t] = << >>]
    /\ csStrand' = [csStrand EXCEPT ![t] = << >>]
    /\ thr' = [thr EXCEPT ![t] = "failed"]
    /\ UNCHANGED <<m_q, m_data, nextId, stops, sub, started, done, witem,
                   subAfterStop, flood, lim, hist, held>>

\* The same program with handlers that may fail.
StepThrow(t) == Step(t) \/ handler_throw(t)

NextThrow ==
    \/ \E t \in Workers : WorkerStart(t)
    \/ \E op \in Ops, s \in Strands, body \in Bodies(lim.depth) : Submit(Foreign, op, s, body)
    \/ stop(Foreign)
    \/ \E t \in Threads : StepThrow(t)

InitThrow ==
    InitWith([workers |-> ThrowWorkers, handlers |-> ThrowHandlers, stops |-> ThrowStops,
              depth |-> ThrowDepth, flood |-> FALSE, hist |-> FALSE, locks |-> FALSE])

ThrowSpec == InitThrow /\ [][NextThrow]_vars

\* The same program with three threads that call run() at any time, before
\* or after stop(), and the pushes made after the last consumer left noted.
InitMark ==
    InitWith([workers |-> MarkWorkers, handlers |-> MarkHandlers, stops |-> MarkStops,
              depth |-> MarkDepth, flood |-> FALSE, hist |-> TRUE, locks |-> FALSE])

MarkSpec == InitMark /\ [][Next]_vars /\ Fairness

\* ------------------------------------------------------------------ claims
Ids == 1..lim.handlers
Frames(t) == {stack[t][i] : i \in 1..Len(stack[t])}

\* Thread t is inside the body of a handler run for strand s.
InHandler(t, s) == \E i \in 1..Len(stack[t]) : stack[t][i].fn = "handler" /\ stack[t][i].s = s

\* C1. Mutual exclusion: in every reachable state, for every strand, at most
\* one thread is inside handler bodies of that strand.
C1_MutualExclusion ==
    \A s \in Strands : \A t1, t2 \in Threads :
        InHandler(t1, s) /\ InHandler(t2, s) => t1 = t2

\* A thread is inside a handler of a strand while another worker is at the
\* transaction of a dispatch on the same strand.
C1_Witness ==
    \E s \in Strands : \E t1, t2 \in Threads :
        /\ t1 # t2
        /\ InHandler(t1, s)
        /\ stack[t2] # << >>
        /\ Top(t2).fn = "dispatch" /\ Top(t2).pc = "txn" /\ Top(t2).s = s

\* C2. Handlers run only on threads inside WorkQueue::run: a thread with a
\* handler frame has WorkQueue::run at the bottom of its stack and
\* canDispatch() true; the foreign thread never has a handler frame.
C2_OnlyInsideRun ==
    \A t \in Threads :
        (\E f \in Frames(t) : f.fn = "handler") =>
            /\ t # Foreign
            /\ thr[t] = "run"
            /\ stack[t][1].fn = "WorkQueue::run"
            /\ canDispatch(t)

\* The foreign thread is inside dispatch, which deferred to post, and the
\* handler it dispatched earlier is running on a worker.
C2_Witness ==
    /\ Len(stack[Foreign]) = 2
    /\ stack[Foreign][1].fn = "dispatch" /\ stack[Foreign][2].fn = "post"
    /\ \E t \in Workers : \E f \in Frames(t) : f.fn = "handler" /\ sub[f.h.id] = 1

\* Thread t took the step.
Moved(t) == stack'[t] # stack[t]

\* Frame i of thread t is a dispatch that found the strand running in its own
\* thread and called the handler, which is frame i + 1.
InlineAt(t, i) ==
    /\ i < Len(stack[t])
    /\ stack[t][i].fn = "dispatch" /\ stack[t][i].pc = "ret"
    /\ stack[t][i + 1].fn = "handler"
    /\ stack[t][i + 1].h.id = stack[t][i].h.id

\* C7. Inline-safety: the step of dispatch(handler) on a thread that is
\* inside one of the strand's own handlers leaves every strand's running flag and queue
\* as they are and enters the handler on the calling thread, above the
\* dispatch frame; that dispatch frame leaves the stack only in the step in
\* which the handler's body returns; and as long as the call is active the
\* calling thread has a step to take.
C7_InlineSafety ==
    [][\A t \in Threads :
        /\ ( /\ stack[t] # << >>
             /\ Top(t).fn = "dispatch" /\ Top(t).pc = "check"
             /\ InHandler(t, Top(t).s)
             /\ Moved(t) )
           => /\ m_data' = m_data
              /\ Len(stack'[t]) = Len(stack[t]) + 1
              /\ stack'[t][Len(stack[t])] = [Top(t) EXCEPT !.pc = "ret"]
              /\ stack'[t][Len(stack'[t])] = HandlerFrame(Top(t).h, Top(t).s)
              /\ started'[Top(t).h.id] = 1 /\ done'[Top(t).h.id] = 0
        /\ \A i \in 1..Len(stack[t]) :
              InlineAt(t, i) =>
                 /\ ENABLED Step(t)
                 /\ Len(stack'[t]) < i =>
                       /\ Len(stack[t]) = i + 1
                       /\ done'[stack[t][i].h.id] = 1
                       /\ m_data' = m_data
    ]_vars

\* A handler dispatched by the owner of the strand is running inline while
\* another handler waits in the strand's queue.
C7_Witness ==
    \E t \in Workers : \E i \in 1..Len(stack[t]) :
        /\ InlineAt(t, i)
        /\ runningInThisThread(t, stack[t][i].s)
        /\ m_data[stack[t][i].s].running
        /\ m_data[stack[t][i].s].q # << >>

\* C8. post never runs the handler as part of the call: wherever a post
\* frame is on a stack, no frame above it is the body of its handler; before
\* its transaction the handler has not been entered; and between its
\* transaction and its push of the drain task the handler is in the strand's
\* queue, not entered.
C8_PostNeverRuns ==
    \A t \in Threads : \A i \in 1..Len(stack[t]) :
        LET f == stack[t][i] IN
        f.fn = "post" =>
            /\ \A j \in (i + 1)..Len(stack[t]) :
                  ~(stack[t][j].fn = "handler" /\ stack[t][j].h.id = f.h.id)
            /\ f.pc = "txn" => started[f.h.id] = 0
            /\ f.pc = "push" =>
                  /\ started[f.h.id] = 0
                  /\ \E k \in 1..Len(m_data[f.s].q) : m_data[f.s].q[k].id = f.h.id

\* The thread that owns a strand is inside post on that strand, called from
\* one of the strand's handlers.
C8_Witness ==
    \E t \in Workers :
        /\ stack[t] # << >>
        /\ Top(t).fn = "post"
        /\ runningInThisThread(t, Top(t).s)
        /\ InHandler(t, Top(t).s)

\* Every thread that calls workQueue.run() has returned from it.
AllReturned == \A t \in 1..lim.workers : thr[t] = "returned"

\* No handler body has submitted a handler: the handlers are those of
\* strandSample, which only call doSomething and count.
OnlyForeignSubmits == \A id \in Ids : sub[id] # 2

\* No work is lost at shutdown (the statement of C4 as written): when the
\* foreign thread submitted its handlers before it called stop, then in a
\* state where every worker has returned from run() each of those handlers
\* has been entered exactly once and has returned.
C4_NoWorkLost ==
    (stops >= 1 /\ ~subAfterStop /\ AllReturned) =>
        \A id \in Ids : sub[id] = 1 => started[id] = 1 /\ done[id] = 1

\* C4 (amended). The same, provided no handler body itself submits a handler
\* (the done counter then equals the number of handlers posted).
C4_NoWorkLostSample ==
    (stops >= 1 /\ ~subAfterStop /\ AllReturned /\ OnlyForeignSubmits) =>
        \A id \in Ids : sub[id] = 1 => started[id] = 1 /\ done[id] = 1

\* Both workers have returned after one stop that followed the foreign
\* thread's posts of three handlers, to both strands.
C4_Witness ==
    /\ stops = 1 /\ ~subAfterStop /\ AllReturned /\ OnlyForeignSubmits
    /\ \A id \in Ids : sub[id] = 1
    /\ \A s \in Strands : \E j \in 1..Len(witem) : witem[j].kind = "drain" /\ witem[j].s = s

\* Work items start executing in push order (the statement of C10 as written).
C10_ExecInPushOrder ==
    \A i, j \in 1..Len(witem) :
        (i < j /\ witem[i].kind = "drain" /\ witem[j].kind = "drain"
           /\ witem[j].st = "started") => witem[i].st = "started"

\* C10 (amended). Work items are dequeued in the order in which their push
\* completed: an item leaves m_q only after every item pushed before it, and
\* m_q holds the items pushed last, in push order.  With a single consumer
\* they also start executing in that order.
C10_DequeueInPushOrder ==
    /\ \A i, j \in 1..Len(witem) :
          (i < j /\ witem[j].st # "queued") => witem[i].st # "queued"
    /\ \A k \in 1..Len(m_q) : m_q[k].seq = Len(witem) - Len(m_q) + k
    /\ Cardinality({t \in Workers : thr[t] # "idle"}) <= 1 => C10_ExecInPushOrder

\* Two consumers have dequeued two drain tasks in push order and the one
\* pushed later has started first.
C10_Witness ==
    \E i, j \in 1..Len(witem) :
        /\ i < j
        /\ witem[i].kind = "drain" /\ witem[j].kind = "drain"
        /\ witem[i].st = "popped" /\ witem[j].st = "started"

\* C3. Completion (FairSpec): every handler submitted, by post or dispatch,
\* from the foreign thread or from a handler, is eventually entered and
\* returns, unless stop() is called; and no handler is entered twice.
C3_Completion ==
    /\ [](\A id \in Ids : started[id] <= 1 /\ done[id] <= started[id])
    /\ \A id \in 1..LiveHandlers : (sub[id] # 0) ~> (done[id] = 1 \/ stops > 0)

\* Every handler has run exactly once with no stop: one came from the
\* foreign thread and one from a handler body.
C3_Witness ==
    /\ stops = 0
    /\ \A id \in Ids : started[id] = 1 /\ done[id] = 1
    /\ \E id \in Ids : sub[id] = 1
    /\ \E id \in Ids : sub[id] = 2

\* C5. Shutdown relay (StopSpec): once stop() has been called, every thread
\* inside run() eventually returns from it.
C5_ShutdownRelay ==
    \A t \in 1..StopWorkers : (stops = 1 /\ thr[t] = "run") ~> (thr[t] = "returned")

\* All the threads that were inside run() when stop() was called once have
\* returned.
C5_Witness ==
    /\ stops = 1
    /\ \A t \in 1..lim.workers : thr[t] = "returned"
    /\ \E j \in 1..Len(witem) : witem[j].kind = "drain" /\ witem[j].st = "started"

InRun == {t \in Workers : thr[t] = "run"}
Returned == {t \in Workers : thr[t] = "returned"}

\* Each stop() releases exactly one run() caller (the statement of C6 as
\* written): no more threads have returned than stop() was called.
C6_OneReleasePerStop == Cardinality(Returned) <= stops

\* C6 (amended, StopSpec). The marker of a stop() is relayed: when stop() has
\* been called k >= 1 times and N > k threads are inside run(), every one of
\* the N eventually returns; none stays blocked.
C6_StopReleasesAll ==
    \A t \in 1..StopWorkers :
        (stops >= 1 /\ Cardinality(InRun) > stops /\ thr[t] = "run")
            ~> (thr[t] = "returned")

\* stop() was called fewer times than threads were inside run(), and all
\* of them have returned.
C6_Witness ==
    /\ stops >= 1
    /\ stops < StopWorkers
    /\ Cardinality(Returned) = StopWorkers

\* Thread t is inside a call of post, or of dispatch.  post calls nothing, and
\* a handler body is on the stack between any two calls of one thread, so a
\* thread leaves InPost (InDispatch) exactly when its call (its outermost
\* call) returns.
InPost(t) == \E i \in 1..Len(stack[t]) : stack[t][i].fn = "post"
InDispatch(t) == \E i \in 1..Len(stack[t]) : stack[t][i].fn = "dispatch"

\* Every call of post and of dispatch eventually returns, also while other
\* threads keep posting (the statement of C9 as written).
C9_EveryCallReturns ==
    \A t \in 0..FloodWorkers :
        /\ InPost(t) ~> ~InPost(t)
        /\ InDispatch(t) ~> ~InDispatch(t)

\* C9 (amended, FloodSpec). Every call of post eventually returns, also while
\* other threads keep posting; every call of dispatch eventually returns
\* once the posting has ended.
C9_ReturnsOnceQuiet ==
    \A t \in 0..FloodWorkers :
        /\ InPost(t) ~> ~InPost(t)
        /\ [](InDispatch(t) => <>(~InDispatch(t) \/ flood))

\* The posting has ended and a dispatch that claimed its strand and drained
\* handlers of the flood is still draining.
C9_Witness ==
    /\ ~flood
    /\ \E t \in Workers : \E i \in 1..Len(stack[t]) :
          /\ stack[t][i].fn = "dispatch" /\ stack[t][i].pc = "ret"
          /\ i + 2 <= Len(stack[t])
          /\ stack[t][i + 1].fn = "Strand::run"
          /\ stack[t][i + 2].fn = "handler" /\ stack[t][i + 2].h = FloodHandler

\* The submissions to strand s that were in its queue when submission k was
\* made: the last hist[s][k].n of the submissions queued before it.
AheadOf(s, k) ==
    {j \in 1..(k - 1) :
        /\ hist[s][j].queued
        /\ Cardinality({i \in (j + 1)..(k - 1) : hist[s][i].queued}) < hist[s][k].n}

\* Already-queued handlers go first (the statement of C11 as written): a
\* handler submitted by post or dispatch is entered only after every handler
\* that was in the strand's queue at the moment of its submission has
\* returned.
C11_QueuedGoFirst ==
    \A s \in Strands : \A k \in 1..Len(hist[s]) : \A j \in AheadOf(s, k) :
        started[hist[s][k].id] > 0 => done[hist[s][j].id] = 1

\* C11 (amended, HistSpec). A handler submitted by post, or by dispatch from
\* a thread that is not running the strand, is entered only after every
\* handler that was in the strand's queue at the moment of its submission has
\* returned; a dispatch that claims the strand finds the queue empty.  (The
\* handler of a dispatch made by the thread that is running the strand is
\* entered at once, ahead of the queued handlers.)
C11_EnqueuedGoBehind ==
    \A s \in Strands : \A k \in 1..Len(hist[s]) :
        /\ hist[s][k].queued =>
              \A j \in AheadOf(s, k) :
                 started[hist[s][k].id] > 0 => done[hist[s][j].id] = 1
        /\ hist[s][k].claim => hist[s][k].n = 0
        /\ (~hist[s][k].queued /\ ~hist[s][k].claim) =>
              /\ started[hist[s][k].id] = 1
              /\ hist[s][k].t # Foreign

\* A handler that was put behind a queued handler has been entered, and a
\* handler dispatched by the thread running the strand was entered while
\* another handler was in the queue.
C11_Witness ==
    \E s \in Strands : \E k, i \in 1..Len(hist[s]) :
        /\ hist[s][k].queued /\ AheadOf(s, k) # {}
        /\ started[hist[s][k].id] = 1
        /\ ~hist[s][i].queued /\ ~hist[s][i].claim /\ hist[s][i].n > 0

\* Thread t is about to make the call fn on strand s, at the point pc.
At(t, fn, pc, s) ==
    /\ stack[t] # << >>
    /\ Top(t).fn = fn /\ Top(t).pc = pc /\ Top(t).s = s

\* C12. Idle implies empty: in every state (the states are those between
\* the transactions on m_data), a strand whose running flag is false has an
\* empty queue.
C12_IdleImpliesEmpty ==
    \A s \in Strands : ~m_data[s].running => m_data[s].q = << >>

\* A drain is about to make its last test of a strand's empty queue while
\* another thread is about to post to the strand, after a handler has
\* returned.
C12_Witness ==
    \E s \in Strands : \E t1, t2 \in Threads :
        /\ t1 # t2
        /\ At(t1, "Strand::run", "txn", s) /\ m_data[s].q = << >>
        /\ At(t2, "post", "txn", s)
        /\ \E id \in Ids : done[id] = 1

\* Thread t is between the claim of strand s by its dispatch and the end of
\* the drain that dispatch makes.
DispatchOwns(t, s) ==
    \E i \in 1..Len(stack[t]) :
        stack[t][i].fn = "dispatch" /\ stack[t][i].s = s /\ stack[t][i].ctx = "strand"

\* Thread t is inside Strand::run of strand s and has not cleared running.
InDrain(t, s) ==
    \E i \in 1..Len(stack[t]) : stack[t][i].fn = "Strand::run" /\ stack[t][i].s = s

\* A drain task of strand s is in the WorkQueue.
DrainPending(s) == \E k \in 1..Len(m_q) : m_q[k].kind = "drain" /\ m_q[k].s = s

\* Thread t has popped a drain task of strand s and not yet called it.
DrainPopped(t, s) ==
    \E i \in 1..Len(stack[t]) :
        /\ stack[t][i].fn = "WorkQueue::run" /\ stack[t][i].pc = "popped"
        /\ stack[t][i].w.kind = "drain" /\ stack[t][i].w.s = s

\* Thread t is between the transaction of a post that set running of strand
\* s and its push of the drain task.
PostClaimed(t, s) ==
    \E i \in 1..Len(stack[t]) :
        stack[t][i].fn = "post" /\ stack[t][i].pc = "push" /\ stack[t][i].s = s

\* Running flag matches ownership (the statement of C13 as written): running
\* is true exactly when a thread is between dispatch's claim and the end of
\* its drain, or inside run() of the strand before clearing the flag, or a
\* drain task of the strand is in the WorkQueue or popped and not yet started.
C13_RunningIffOwned ==
    \A s \in Strands :
        m_data[s].running <=>
            \/ \E t \in Threads : DispatchOwns(t, s) \/ InDrain(t, s) \/ DrainPopped(t, s)
            \/ DrainPending(s)

\* C13 (amended). The same, with one more way of being about to own the
\* strand: a thread is between the transaction of a post that set running and
\* that post's push of the drain task.
C13_RunningIffOwnedOrPosting ==
    \A s \in Strands :
        m_data[s].running <=>
            \/ \E t \in Threads :
                  DispatchOwns(t, s) \/ InDrain(t, s) \/ DrainPopped(t, s) \/ PostClaimed(t, s)
            \/ DrainPending(s)

\* A strand is running and the only thread about to own it is one between
\* the transaction of its post and the push of the drain task.
C13_Witness ==
    \E s \in Strands : \E t \in Threads :
        /\ m_data[s].running /\ PostClaimed(t, s) /\ ~DrainPending(s)
        /\ \A u \in Threads : ~DispatchOwns(u, s) /\ ~InDrain(u, s) /\ ~DrainPopped(u, s)

\* The activations of strand s: the drain tasks of s in the WorkQueue, the
\* drain tasks of s popped and not yet called, the calls of Strand::run made
\* by a drain task of s that have not made their last transaction, and the
\* dispatches that claimed s and have not finished their drain.
DrainsInQ(s) == {k \in 1..Len(m_q) : m_q[k].kind = "drain" /\ m_q[k].s = s}
DrainFrames(t, s) ==
    {i \in 1..Len(stack[t]) :
        \/ /\ stack[t][i].fn = "WorkQueue::run" /\ stack[t][i].pc = "popped"
           /\ stack[t][i].w.kind = "drain" /\ stack[t][i].w.s = s
        \/ /\ stack[t][i].fn = "Strand::run" /\ stack[t][i].s = s
           /\ i > 1 /\ stack[t][i - 1].fn = "WorkQueue::run"}
DispatchFrames(t, s) ==
    {i \in 1..Len(stack[t]) :
        stack[t][i].fn = "dispatch" /\ stack[t][i].s = s /\ stack[t][i].ctx = "strand"}
Activations(s) ==
    Cardinality(DrainsInQ(s))
    + Cardinality(UNION {{<<t, i>> : i \in DrainFrames(t, s) \cup DispatchFrames(t, s)} :
                         t \in Threads})

\* C14. Single activation: every strand has at most one activation in every
\* state (a drain counts until the transaction in which it clears running);
\* the transaction of a post is followed by the push of a drain task exactly
\* when it changed running from false to true, and a drain task enters the
\* WorkQueue only by that push.
C14_SingleActivation ==
    /\ [](\A s \in Strands : Activations(s) <= 1)
    /\ [][\A s \in Strands :
            /\ \A t \in Threads :
                  (At(t, "post", "txn", s) /\ Moved(t)) =>
                     (At(t, "post", "push", s)' <=> (~m_data[s].running /\ m_data'[s].running))
            /\ Cardinality(DrainsInQ(s))' > Cardinality(DrainsInQ(s)) =>
                  \E t \in Threads : At(t, "post", "push", s) /\ Moved(t)
         ]_vars

\* A drain task of a running strand is in the WorkQueue while a worker is
\* about to make the transaction of a dispatch to that strand.
C14_Witness ==
    \E s \in Strands : \E t \in Workers :
        /\ DrainsInQ(s) # {} /\ m_data[s].running
        /\ At(t, "dispatch", "txn", s)

\* C15. assert(data.running) in Strand::run never fails: whenever a thread
\* is about to make the transaction of Strand::run on a strand, or is
\* anywhere inside Strand::run of it, the strand's running flag is true.
C15_AssertRunning ==
    \A s \in Strands : \A t \in Threads :
        (At(t, "Strand::run", "txn", s) \/ InDrain(t, s)) => m_data[s].running

\* A worker is about to make the drain transaction on a strand it claimed by
\* a dispatch from a handler of another strand, which it is draining too,
\* while another thread is about to post to the first strand.
C15_Witness ==
    \E s, s2 \in Strands : \E t \in Workers : \E u \in Threads :
        /\ s # s2 /\ u # t
        /\ At(t, "Strand::run", "txn", s) /\ DispatchOwns(t, s)
        /\ InHandler(t, s2) /\ InDrain(t, s2)
        /\ At(u, "post", "txn", s)

\* The submissions to strand s that changed running from false to true, and
\* the last of them.
Claims(s) == {k \in 1..Len(hist[s]) : hist[s][k].claim}
LastClaim(s) == hist[s][CHOOSE k \in Claims(s) : \A j \in Claims(s) : j <= k]

\* Thread t pops the queue of strand s in this step.
Pops(t, s) ==
    /\ At(t, "Strand::run", "txn", s)
    /\ Moved(t)
    /\ Len(m_data'[s].q) < Len(m_data[s].q)

\* The queue is only popped by the thread that most recently changed running
\* from false to true (the statement of C16 as written).
C16_PoppedByClaimer ==
    [][\A s \in Strands : \A t \in Threads :
          Pops(t, s) => (Claims(s) # {} /\ LastClaim(s).t = t)]_vars

\* C16 (amended, HistSpec). The queue of a strand is only popped by the one
\* thread that owns the strand since running last went from false to true:
\* the thread whose dispatch made that change, or, when a post made it, the
\* thread that runs the drain task that post pushed, whichever thread posted.
\* No other thread is inside Strand::run or a claiming dispatch of the
\* strand, so none pops until the owner finds the queue empty and clears
\* running.
C16_PoppedByOwner ==
    [][\A s \in Strands : \A t \in Threads :
          Pops(t, s) =>
             /\ Claims(s) # {}
             /\ m_data[s].running
             /\ IF LastClaim(s).queued
                THEN DrainFrames(t, s) # {} /\ DispatchFrames(t, s) = {}
                ELSE LastClaim(s).t = t /\ DispatchFrames(t, s) # {} /\ DrainFrames(t, s) = {}
             /\ \A u \in Threads \ {t} : ~InDrain(u, s) /\ ~DispatchOwns(u, s)
      ]_vars

\* A worker is running a handler it popped from a strand's queue, and the
\* thread that last set the strand's running flag is the foreign thread, by
\* post.
C16_Witness ==
    \E s \in Strands : \E t \in Workers :
        /\ Claims(s) # {}
        /\ LastClaim(s).queued /\ LastClaim(s).t = Foreign
        /\ started[LastClaim(s).id] = 1
        /\ InDrain(t, s) /\ InHandler(t, s)

\* C17. No lock is held while a handler runs (LockSpec): a thread whose
\* innermost call is a handler body holds no mutex; a thread holds a mutex
\* only for the transaction it is about to make, one mutex at a time; and the
\* holder of a mutex always has its step to take, which gives the mutex back,
\* so a handler that calls post or dispatch on its own strand or on another
\* one, or pushes to the WorkQueue, waits only for such holders.
C17_NoLockInHandler ==
    \A t \in Threads :
        /\ (stack[t] # << >> /\ Top(t).fn = "handler") => held[t] = NoLock
        /\ held[t] # NoLock =>
              /\ held[t] = Wants(t)
              /\ ENABLED Step(t)
              /\ \A u \in Threads \ {t} : held[u] # held[t]
        /\ (Wants(t) # NoLock /\ held[t] = NoLock) =>
              \/ ENABLED Acquire(t)
              \/ \E u \in Threads \ {t} : held[u] = Wants(t) /\ ENABLED Step(u)

\* A handler of a strand has called post on its own strand and holds the
\* strand's mutex for the transaction.
C17_Witness ==
    \E s \in Strands : \E t \in Workers :
        /\ InHandler(t, s)
        /\ At(t, "post", "txn", s)
        /\ held[t] = s

\* C18. Queued handlers are strictly FIFO (HistSpec): of two handlers put in
\* the queue of one strand, by post or by a dispatch that found running
\* true, the one whose transaction came second is entered only after the
\* other has been entered and has returned; and each is entered at most once.
C18_QueuedFIFO ==
    \A s \in Strands : \A i, j \in 1..Len(hist[s]) :
        (i < j /\ hist[s][i].queued /\ hist[s][j].queued) =>
            /\ started[hist[s][j].id] > 0 =>
                  started[hist[s][i].id] = 1 /\ done[hist[s][i].id] = 1
            /\ started[hist[s][j].id] <= 1

\* Three handlers queued on one strand have returned; the second was
\* queued while the queue was not empty, and the third was posted to the
\* idle strand and started a new activation.
C18_Witness ==
    \E s \in Strands : \E i, j, k \in 1..Len(hist[s]) :
        /\ i < j /\ j < k
        /\ hist[s][i].queued /\ hist[s][j].queued /\ hist[s][k].queued
        /\ hist[s][j].n > 0
        /\ hist[s][k].claim
        /\ \A x \in {i, j, k} : done[hist[s][x].id] = 1

\* The shutdown markers in the WorkQueue, and the consumers that have popped
\* a marker and not yet pushed it again.
MarkersInQ == {k \in 1..Len(m_q) : m_q[k].kind = "null"}
MarkerHolders ==
    {t \in Threads : /\ stack[t] # << >>
                     /\ Top(t).fn = "WorkQueue::run" /\ Top(t).pc = "popped"
                     /\ Top(t).w.kind = "null"}
MarkersConserved == Cardinality(MarkersInQ) + Cardinality(MarkerHolders) = stops

\* Shutdown markers are conserved, and a work item pushed behind the marker
\* after the last consumer left is never executed (the statement of C19 as
\* written).
C19_LateItemNeverRuns ==
    /\ MarkersConserved
    /\ \A j \in 1..Len(witem) :
          (witem[j].late /\ witem[j].kind = "drain") => witem[j].st # "started"

\* C19 (amended, MarkSpec). The markers in the queue plus those held by
\* consumers between the pop and the push equal the calls of stop(); after
\* a stop() a marker is in the queue whenever no consumer holds one, and
\* every thread inside run(), also one that calls it later, returns.  A work
\* item pushed behind the marker after the last consumer left is not popped
\* before a later caller of run() has popped the marker that was ahead of it
\* (and holds it, or has pushed it again behind the item).
C19_MarkersConserved ==
    /\ [](/\ MarkersConserved
          /\ (stops >= 1 /\ MarkerHolders = {}) => MarkersInQ # {}
          /\ \A j \in 1..Len(witem) :
                (witem[j].late /\ witem[j].kind = "drain" /\ witem[j].st # "queued") =>
                    /\ \E k \in 1..(j - 1) : witem[k].kind = "null" /\ witem[k].st = "popped"
                    /\ \/ MarkerHolders # {}
                       \/ \E k \in (j + 1)..Len(witem) : witem[k].kind = "null")
    /\ \A t \in 1..MarkWorkers : (stops >= 1 /\ thr[t] = "run") ~> (thr[t] = "returned")

\* A drain task pushed behind the marker after the last consumer had left
\* has been executed by a later caller of run(), after another later caller
\* took the marker ahead of it and returned.
C19_Witness ==
    \E j \in 1..Len(witem) :
        /\ witem[j].late /\ witem[j].kind = "drain" /\ witem[j].st = "started"
        /\ Cardinality(Returned) >= 2

\* C20. A handler failure wedges the strand (ThrowSpec): once a handler has
\* failed on a thread that was running strand s (by a drain or by a dispatch
\* that claimed s), running of s stays true for ever, no thread owns s or is
\* about to, no drain task of s is in the WorkQueue or on its way, no handler
\* of s is executing or is entered again, and the queue of s is never popped:
\* the handlers in it and those that post and dispatch add to it stay there.
C20_FailureWedges ==
    /\ [](\A s \in failed :
            /\ m_data[s].running
            /\ ~DrainPending(s)
            /\ \A t \in Threads :
                  /\ ~InDrain(t, s) /\ ~DispatchOwns(t, s) /\ ~DrainPopped(t, s)
                  /\ ~PostClaimed(t, s)
                  /\ ~runningInThisThread(t, s)
                  /\ ~InHandler(t, s))
    /\ [][\A s \in failed :
            /\ s \in failed'
            /\ \/ m_data'[s].q = m_data[s].q
               \/ \E h \in {Top(t).h : t \in {u \in Threads : stack[u] # << >>}} :
                     m_data'[s].q = Append(m_data[s].q, h)
         ]_vars

\* A handler has failed on a strand; a handler dispatched to the strand
\* by the other worker, from a handler of another strand that has
\* returned, is in the strand's queue, and that worker waits on the empty
\* WorkQueue.
C20_Witness ==
    \E s \in failed : \E t \in Workers :
        /\ m_q = << >>
        /\ stack[Foreign] = << >>
        /\ thr[t] = "run" /\ At(t, "WorkQueue::run", "wait", 0)
        /\ \E id \in Ids :
              /\ sub[id] = 2 /\ started[id] = 0 /\ done[id - 1] = 1
              /\ \E k \in 1..Len(m_data[s].q) : m_data[s].q[k].id = id

====
